---------------------------- MODULE Spec2Model ----------------------------
(***************************************************************************)
(* Model of the core_exp_audio_ll_updates cog: the release data model and  *)
(* resolution (update_manager.py), the config merge engine, the three      *)
(* patch functions of UpdateManager, the meta-path Finder / Loader wrapper *)
(* (meta_path_finder.py) and the operator commands of the cog (cog.py).    *)
(*                                                                         *)
(* Three specifications:                                                   *)
(*   Spec        the cog in a running process: lifecycle, module loads     *)
(*               through sys.meta_path, the update and reset commands.     *)
(*   SpecMerge   _generate_server_config / _deep_merge on bounded trees.   *)
(*   SpecResolve ReleaseIndex.get_latest_release on bounded indexes.       *)
(***************************************************************************)
EXTENDS Integers, Sequences, FiniteSets, TLC

\* Python's None (a record, so that it compares with the records it stands in for).
None == [is_none |-> TRUE]

(***************************************************************************)
(* Bounds of the model.                                                    *)
(***************************************************************************)
\* Longest release index drawn in SpecResolve.
MaxIndexLen == 3
\* Largest release number of a host version / specifier clause in SpecResolve.
MaxVersion == 2
\* Most keys (nodes) a config tree drawn in SpecMerge holds.
MaxTreeNodes == 3
\* Most finders other code puts on sys.meta_path in Spec.
MaxOtherFinders == 1
\* The longest java_versions list of a parsed object.
MaxJavaVersions == 2

(***************************************************************************)
(* Config trees: Dict[str, Any].  A value is a leaf (any non-dict value)   *)
(* or a dict from keys to values.                                          *)
(***************************************************************************)
Leaf(v) == [t |-> "leaf", v |-> v]
Dict(d) == [t |-> "dict", d |-> d]
\* isinstance(x, dict)
IsDict(x) == x.t = "dict"
EmptyDict == Dict(<<>>)
\* A dict given as a set of <<key, value>> pairs.
DictOf(pairs) ==
    Dict([k \in {p[1] : p \in pairs} |-> (CHOOSE p \in pairs : p[1] = k)[2]])

\* One step of the loop of _deep_merge: destination after handling `key`.
RECURSIVE _deep_merge(_, _)
RECURSIVE _deep_merge_keys(_, _, _)
_deep_merge_keys(destination, source, keys) ==
    IF keys = {} THEN destination
    ELSE
        LET key == CHOOSE k \in keys : TRUE
            merged ==
                IF /\ key \in DOMAIN destination.d
                   /\ IsDict(destination.d[key])
                   /\ IsDict(source.d[key])
                THEN _deep_merge(destination.d[key], source.d[key])
                ELSE source.d[key]   \* deepcopy(source[key])
            dest1 ==
                Dict([k \in DOMAIN destination.d \cup {key} |->
                        IF k = key THEN merged ELSE destination.d[k]])
        IN _deep_merge_keys(dest1, source, keys \ {key})

\* _deep_merge(destination, source): the destination after the in-place merge.
_deep_merge(destination, source) ==
    _deep_merge_keys(destination, source, DOMAIN source.d)


(***************************************************************************)
(* _generate_server_config(orig_func, update_manager, config_data).        *)
(* `base` is what orig_func(config_data) returned; `release_info` is       *)
(* update_manager.release_info at the time of the call.                    *)
(***************************************************************************)
\* A plausible slip: the two merges in the opposite order.
_generate_server_config_swapped(base, release_info, config_data) ==
    IF release_info # None
    THEN _deep_merge(_deep_merge(base, config_data),
                     release_info.application_yml_overrides)
    ELSE base

_generate_server_config(base, release_info, config_data) ==
    IF release_info # None
    THEN _deep_merge(_deep_merge(base, release_info.application_yml_overrides),
                     config_data)
    ELSE base

(***************************************************************************)
(* Calling a module's generate_server_config(config_data): `base` is what  *)
(* the module's own function returns for config_data, and each wrapper     *)
(* around it runs _generate_server_config on what the function it wraps    *)
(* returned.                                                               *)
(***************************************************************************)
RECURSIVE generate_server_config(_, _, _, _)
generate_server_config(wrappers, base, release_info, config_data) ==
    IF wrappers = 0 THEN base
    ELSE _generate_server_config(
             generate_server_config(wrappers - 1, base, release_info, config_data),
             release_info, config_data)

(***************************************************************************)
(* Versions and specifier sets (packaging.version / packaging.specifiers)  *)
(* as far as get_latest_release uses them.  A version is a release number  *)
(* and a pre-release flag (n.dev sorts right below n); a SpecifierSet is a *)
(* set of clauses ">=n" / "<=n".                                           *)
(***************************************************************************)
Version(n, pre) == [n |-> n, pre |-> pre]
VersionKey(v) == 2 * v.n - (IF v.pre THEN 1 ELSE 0)
Clause(op, n) == [op |-> op, n |-> n]
ClauseHolds(c, v) ==
    IF c.op = ">=" THEN VersionKey(v) >= 2 * c.n ELSE VersionKey(v) <= 2 * c.n

\* SpecifierSet.contains(version, prereleases=...)
SpecifierSet_contains(specifiers, version, prereleases) ==
    /\ (version.pre => prereleases)
    /\ \A c \in specifiers : ClauseHolds(c, version)

\* ReleaseStream: the enum members and their values.
STABLE == "STABLE"
PREVIEW == "PREVIEW"
ReleaseStream == {STABLE, PREVIEW}
ReleaseStream_value(member) == IF member = STABLE THEN "stable" ELSE "preview"
ReleaseStream_of(value) == IF value = "stable" THEN STABLE ELSE PREVIEW

\* The dataclass ReleaseInfo.
ReleaseInfo(name, jar_version, jar_url, yt, java_versions, red_version, stream, overrides) ==
    [release_name |-> name, jar_version |-> jar_version, jar_url |-> jar_url,
     yt_plugin_version |-> yt, java_versions |-> java_versions,
     red_version |-> red_version, release_stream |-> stream,
     application_yml_overrides |-> overrides]

(***************************************************************************)
(* ReleaseIndex.get_latest_release(release_stream, red_version=None).      *)
(* The result is [found |-> TRUE, release |-> r, at |-> i] or, for the     *)
(* ValueError, [found |-> FALSE].                                          *)
(***************************************************************************)
\* A plausible slip: the fallback the wrong way round (STABLE falls back to PREVIEW).
EligibleStreams_reversed(release_stream) ==
    IF release_stream = STABLE THEN {release_stream, PREVIEW} ELSE {release_stream}

\* streams = (release_stream,) + ((STABLE,) if release_stream is PREVIEW)
EligibleStreams(release_stream) ==
    IF release_stream = PREVIEW THEN {release_stream, STABLE} ELSE {release_stream}

ValueError == [found |-> FALSE]

RECURSIVE ScanReleases(_, _, _, _)
ScanReleases(releases, i, streams, red_version) ==
    IF i > Len(releases) THEN ValueError
    ELSE
        LET release == releases[i] IN
        IF release.release_stream \notin streams
        THEN ScanReleases(releases, i + 1, streams, red_version)
        ELSE IF /\ red_version # None
                /\ ~SpecifierSet_contains(release.red_version, red_version, TRUE)
        THEN ScanReleases(releases, i + 1, streams, red_version)
        ELSE [found |-> TRUE, release |-> release, at |-> i]

\* A plausible slip: PREVIEW releases are preferred to STABLE ones whatever the order.
get_latest_release_preview_first(releases, release_stream, red_version) ==
    LET own == ScanReleases(releases, 1, {release_stream}, red_version)
    IN IF own.found THEN own
       ELSE ScanReleases(releases, 1, EligibleStreams(release_stream), red_version)

get_latest_release(releases, release_stream, red_version) ==
    ScanReleases(releases, 1, EligibleStreams(release_stream), red_version)


(***************************************************************************)
(* JSON values as _get_and_validate_key sees them: a value carries its     *)
(* Python type in the field t ("str", "int", "list", "dict", "NoneType")   *)
(* and its content in a field of that type's name.                         *)
(* A JSON object is a function from its keys to values; a config tree      *)
(* (Dict above) is the value of type "dict".  The text of a red_version    *)
(* string is held as the sequence of its comma-separated clauses, a clause *)
(* that is no specifier having an operator other than ">=" and "<=".       *)
(***************************************************************************)
JStr(v) == [t |-> "str", str |-> v]
JInt(v) == [t |-> "int", int |-> v]
JList(v) == [t |-> "list", list |-> v]
JNull == [t |-> "NoneType"]
\* The Python value of a str or an int.
Plain(value) == IF value.t = "int" THEN value.int ELSE value.str

\* The exceptions from_json_dict can leave with, and the key their message names
\* ("" when it names none).
KeyError(key) == [raised |-> "KeyError", key |-> key]
TypeError(key) == [raised |-> "TypeError", key |-> key]
\* ReleaseStream(raw) on an unknown value: ValueError("'raw' is not a valid ReleaseStream")
EnumValueError == [raised |-> "ValueError", key |-> ""]
IsRaised(result) == "raised" \in DOMAIN result

\* value_type.__origin__ (or value_type itself): typing.List[int].__origin__ is
\* the class list, typing.Dict[str, Any].__origin__ is the class dict.
Origin(value_type) ==
    IF value_type = "List[int]" THEN "list"
    ELSE IF value_type = "Dict[str, Any]" THEN "dict"
    ELSE value_type
\* typing.List, the object `origin` is compared with before the items are checked.
typing_List == "typing.List"
\* value_type.__args__[0]
TypeArg(value_type) == IF value_type = "List[int]" THEN "int" ELSE "Any"

\* _get_and_validate_key(data, key, value_type): the value, or the exception.
_get_and_validate_key(data, key, value_type) ==
    IF key \notin DOMAIN data THEN KeyError(key)
    ELSE LET value == data[key]
             origin == Origin(value_type)
         IN IF value.t # origin THEN TypeError(key)
            ELSE IF origin = typing_List
            THEN IF \A i \in DOMAIN value.list : value.list[i].t = TypeArg(value_type)
                 THEN value ELSE TypeError(key)
            ELSE value

(***************************************************************************)
(* ReleaseInfo.as_json_dict / from_json_dict.  str(SpecifierSet) is the    *)
(* clauses sorted as strings ("<" sorts before ">") and joined by commas;  *)
(* release_stream is written as the enum's value; java_versions as a list. *)
(***************************************************************************)
ClauseBefore(c1, c2) == \/ c1.op = "<=" /\ c2.op = ">="
                        \/ c1.op = c2.op /\ c1.n <= c2.n

RECURSIVE SortedClauses(_)
\* str(SpecifierSet)
SortedClauses(specifiers) ==
    IF specifiers = {} THEN <<>>
    ELSE LET first == CHOOSE c \in specifiers :
                          \A o \in specifiers : ClauseBefore(c, o)
         IN <<first>> \o SortedClauses(specifiers \ {first})

\* SpecifierSet(raw) raises InvalidSpecifier on a clause that is no specifier.
ValidSpecifierSet(raw) == \A i \in DOMAIN raw : raw[i].op \in {">=", "<="}
\* SpecifierSet(raw)
ParseSpecifierSet(raw) == {raw[i] : i \in DOMAIN raw}

\* list(self.java_versions) / tuple(json_list): the items of a tuple are held
\* bare, those of a JSON list with their type.
ListOf(java_versions) == JList([i \in DOMAIN java_versions |-> JInt(java_versions[i])])
TupleOf(json_list) == [i \in DOMAIN json_list.list |-> Plain(json_list.list[i])]

as_json_dict(self) ==
    [release_name |-> JStr(self.release_name),
     jar_version |-> JStr(self.jar_version),
     jar_url |-> JStr(self.jar_url),
     yt_plugin_version |-> JStr(self.yt_plugin_version),
     java_versions |-> ListOf(self.java_versions),
     red_version |-> JStr(SortedClauses(self.red_version)),
     release_stream |-> JStr(ReleaseStream_value(self.release_stream)),
     application_yml_overrides |-> self.application_yml_overrides]

\* The keys from_json_dict reads, in the order it reads them, with the type
\* it asks _get_and_validate_key for.
FromJsonReads ==
    <<[key |-> "release_stream", value_type |-> "str"],
      [key |-> "red_version", value_type |-> "str"],
      [key |-> "jar_version", value_type |-> "str"],
      [key |-> "release_name", value_type |-> "str"],
      [key |-> "jar_url", value_type |-> "str"],
      [key |-> "yt_plugin_version", value_type |-> "str"],
      [key |-> "java_versions", value_type |-> "List[int]"],
      [key |-> "application_yml_overrides", value_type |-> "Dict[str, Any]"]>>

\* One read of from_json_dict: the validated value, decoded where the code
\* decodes it.  `except InvalidSpecifier` around ReleaseStream(raw) catches
\* nothing, the enum raising ValueError.
FromJsonRead(data, read) ==
    LET value == _get_and_validate_key(data, read.key, read.value_type)
    IN IF IsRaised(value) THEN value
       ELSE IF read.key = "release_stream"
       THEN IF value.str \in {ReleaseStream_value(m) : m \in ReleaseStream}
            THEN value ELSE EnumValueError
       ELSE IF read.key = "red_version"
       THEN IF ValidSpecifierSet(value.str) THEN value ELSE TypeError("red_version")
       ELSE value

RECURSIVE FromJsonScan(_, _)
\* The first exception the reads from the i-th on raise, or None.
FromJsonScan(data, i) ==
    IF i > Len(FromJsonReads) THEN None
    ELSE IF IsRaised(FromJsonRead(data, FromJsonReads[i]))
    THEN FromJsonRead(data, FromJsonReads[i])
    ELSE FromJsonScan(data, i + 1)

\* A plausible slip: application_yml_overrides is left at the dataclass default.
from_json_dict_default_overrides(data) ==
    IF FromJsonScan(data, 1) # None THEN FromJsonScan(data, 1)
    ELSE ReleaseInfo(data.release_name.str, data.jar_version.str, data.jar_url.str,
                     data.yt_plugin_version.str, TupleOf(data.java_versions),
                     ParseSpecifierSet(data.red_version.str),
                     ReleaseStream_of(data.release_stream.str),
                     EmptyDict)

\* ReleaseInfo.from_json_dict(data): the ReleaseInfo, or the exception.
from_json_dict(data) ==
    IF FromJsonScan(data, 1) # None THEN FromJsonScan(data, 1)
    ELSE ReleaseInfo(data.release_name.str, data.jar_version.str, data.jar_url.str,
                     data.yt_plugin_version.str, TupleOf(data.java_versions),
                     ParseSpecifierSet(data.red_version.str),
                     ReleaseStream_of(data.release_stream.str),
                     data.application_yml_overrides)

(***************************************************************************)
(* The target modules: redbot.cogs.audio.manager, .managed_node.           *)
(* ll_server_config and .managed_node.version_pins, with the symbols the   *)
(* patch functions write.  generate_server_config is held as the number of *)
(* wrappers around the module's own function (0: the original; a wrapper   *)
(* carries the marker .func = _generate_server_config).                    *)
(***************************************************************************)
_AUDIO_MANAGER_MOD_NAME == "redbot.cogs.audio.manager"
_AUDIO_LL_SERVER_CONFIG_MOD_NAME == "redbot.cogs.audio.managed_node.ll_server_config"
_AUDIO_VERSION_PINS_MOD_NAME == "redbot.cogs.audio.managed_node.version_pins"
_AUDIO_AFFECTED_MODULES ==
    {_AUDIO_MANAGER_MOD_NAME, _AUDIO_LL_SERVER_CONFIG_MOD_NAME, _AUDIO_VERSION_PINS_MOD_NAME}
\* A module outside the fixed target set.
OtherModName == "redbot.cogs.audio.core"

\* _generate_ll_version_line(raw_version)
_generate_ll_version_line(raw_version) == <<"Version: ", raw_version>>
\* LavalinkVersion.from_version_output(line): the target module's own parser.
from_version_output(line) == [lavalink_version |-> line[2]]

\* The symbols right after the module's own body has executed.
FreshSymbols(name) ==
    IF name = _AUDIO_MANAGER_MOD_NAME
    THEN [LAVALINK_DOWNLOAD_URL |-> "default_url"]
    ELSE IF name = _AUDIO_LL_SERVER_CONFIG_MOD_NAME
    THEN [generate_server_config |-> 0]
    ELSE [JAR_VERSION |-> from_version_output(_generate_ll_version_line("default_jar")),
          YT_PLUGIN_VERSION |-> "default_yt",
          SUPPORTED_JAVA_VERSIONS |-> <<17, 11>>,
          LATEST_SUPPORTED_JAVA_VERSION |-> 17,
          OLDER_SUPPORTED_JAVA_VERSIONS |-> <<11>>]

(***************************************************************************)
(* The three patch functions of UpdateManager.  Each takes the module's    *)
(* symbols and self.release_info and gives [sym |-> the symbols it leaves,  *)
(* raised |-> whether it raised].                                           *)
(***************************************************************************)
Returned(sym) == [sym |-> sym, raised |-> FALSE]
Raised(sym) == [sym |-> sym, raised |-> TRUE]

\* A plausible slip: no early return when nothing is selected.
update_manager_unguarded(module, release_info) ==
    Returned([module EXCEPT !.LAVALINK_DOWNLOAD_URL =
                 IF release_info = None THEN "None" ELSE release_info.jar_url])

update_manager(module, release_info) ==
    IF release_info = None THEN Returned(module)
    ELSE Returned([module EXCEPT !.LAVALINK_DOWNLOAD_URL = release_info.jar_url])

\* A plausible slip: no check of the marker, every call wraps again.
update_ll_server_config_rewrap(module, release_info) ==
    IF release_info = None THEN Returned(module)
    ELSE Returned([module EXCEPT !.generate_server_config = @ + 1])

update_ll_server_config(module, release_info) ==
    IF release_info = None THEN Returned(module)
    ELSE IF module.generate_server_config >= 1   \* orig_func.func is _generate_server_config
    THEN Returned(module)
    ELSE Returned([module EXCEPT !.generate_server_config = @ + 1])

update_version_pins(module, release_info) ==
    IF release_info = None THEN Returned(module)
    ELSE
        LET java_versions == release_info.java_versions
            m3 == [module EXCEPT
                     !.JAR_VERSION = from_version_output(
                         _generate_ll_version_line(release_info.jar_version)),
                     !.YT_PLUGIN_VERSION = release_info.yt_plugin_version,
                     !.SUPPORTED_JAVA_VERSIONS = java_versions]
        IN IF Len(java_versions) = 0
           THEN Raised(m3)   \* java_versions[-1]: IndexError
           ELSE Returned([m3 EXCEPT
                     !.LATEST_SUPPORTED_JAVA_VERSION =
                         java_versions[Len(java_versions)],
                     !.OLDER_SUPPORTED_JAVA_VERSIONS =
                         SubSeq(java_versions, 1, Len(java_versions) - 1)])


(***************************************************************************)
(* The Loader wrapper and the Finder (meta_path_finder.py).                *)
(***************************************************************************)
PatchName(name) ==
    IF name = _AUDIO_MANAGER_MOD_NAME THEN "update_manager"
    ELSE IF name = _AUDIO_LL_SERVER_CONFIG_MOD_NAME THEN "update_ll_server_config"
    ELSE "update_version_pins"

\* The if / elif chain of exec_module on actual_spec.name.
Dispatch(name, module, release_info) ==
    IF name = _AUDIO_MANAGER_MOD_NAME THEN update_manager(module, release_info)
    ELSE IF name = _AUDIO_LL_SERVER_CONFIG_MOD_NAME
    THEN update_ll_server_config(module, release_info)
    ELSE update_version_pins(module, release_info)

ExecEvent(name) == [call |-> "exec_module", module |-> name]
PatchEvent(name, release_info) ==
    [call |-> PatchName(name), module |-> name, release_info |-> release_info]

\* A plausible slip: the patch is applied before the real loader executes the
\* module, whose body then overwrites the patched symbols.
Loader_exec_module_patch_first(name, release_info) ==
    LET patched == Dispatch(name, FreshSymbols(name), release_info)
    IN [sym |-> FreshSymbols(name), raised |-> patched.raised,
        log |-> <<PatchEvent(name, release_info), ExecEvent(name)>>]

\* CoreExpAudioLavalinkUpdatesLoader.exec_module(module), for the module whose
\* actual spec is named `name`: the symbols it leaves, whether it raised, and
\* the calls it made on the module, in order.
Loader_exec_module(name, release_info) ==
    LET executed == FreshSymbols(name)   \* actual_spec.loader.exec_module(module)
        patched == Dispatch(name, executed, release_info)
    IN [sym |-> patched.sym, raised |-> patched.raised,
        log |-> <<ExecEvent(name), PatchEvent(name, release_info)>>]

\* sys.meta_path entries: this cog's Finder, the interpreter's own finder, and
\* a finder some other code installs.
FinderEntry == "CoreExpAudioLavalinkUpdatesFinder"
PathFinder == "PathFinder"
OtherFinder == "OtherFinder"

IndexOf(seq, x) == CHOOSE i \in DOMAIN seq : seq[i] = x /\ \A j \in 1..(i - 1) : seq[j] # x
Pop(seq, idx) == SubSeq(seq, 1, idx - 1) \o SubSeq(seq, idx + 1, Len(seq))
\* list.insert(idx, x), idx 0-based
Insert(seq, idx0, x) ==
    LET at == IF idx0 > Len(seq) THEN Len(seq) ELSE idx0
    IN SubSeq(seq, 1, at) \o <<x>> \o SubSeq(seq, at + 1, Len(seq))
Contains(seq, x) == \E i \in DOMAIN seq : seq[i] = x

\* What importlib.util.find_spec(fullname) does while the Finder is off the
\* search order: it finds the real spec, finds none, or raises.
DelegateOutcomes == {"found", "none", "raise"}

\* CoreExpAudioLavalinkUpdatesFinder.find_spec(fullname, path): sys.meta_path
\* when the call exits, how it exits ("None", "spec": the wrapped spec, or
\* "raise"), and sys.meta_path as it is during the delegated lookup (for a
\* name that is no target there is no lookup).
\* A plausible slip: the Finder is put back at the front, not at idx.
Finder_find_spec_front(meta_path, fullname, delegate) ==
    IF fullname \notin _AUDIO_AFFECTED_MODULES
    THEN [meta_path |-> meta_path, result |-> "None", during |-> meta_path]
    ELSE
        LET idx == IndexOf(meta_path, FinderEntry)
            popped == Pop(meta_path, idx)
        IN IF delegate = "raise"
           THEN [meta_path |-> popped, result |-> "raise", during |-> popped]
           ELSE [meta_path |-> Insert(popped, 0, FinderEntry),
                 result |-> IF delegate = "none" THEN "None" ELSE "spec",
                 during |-> popped]

Finder_find_spec(meta_path, fullname, delegate) ==
    IF fullname \notin _AUDIO_AFFECTED_MODULES
    THEN [meta_path |-> meta_path, result |-> "None", during |-> meta_path]
    ELSE
        LET idx == IndexOf(meta_path, FinderEntry)
            popped == Pop(meta_path, idx)
        IN IF delegate = "raise"
           THEN [meta_path |-> popped, result |-> "raise", during |-> popped]
           ELSE [meta_path |-> Insert(popped, idx - 1, FinderEntry),
                 result |-> IF delegate = "none" THEN "None" ELSE "spec",
                 during |-> popped]


(***************************************************************************)
(* The import system around the hook.  A module of sys_modules is          *)
(* [loaded: it is in sys.modules, wrapped: its __spec__.loader is the      *)
(* Loader wrapper, sym: its symbols].  An import or re-execution gives     *)
(* [sys_modules, meta_path, log: the calls of the last exec_module of the  *)
(* wrapper, raised].                                                       *)
(***************************************************************************)
NotLoaded(name) == [loaded |-> FALSE, wrapped |-> FALSE, sym |-> FreshSymbols(name)]

World(sys_modules, meta_path, log, find, raised) ==
    [sys_modules |-> sys_modules, meta_path |-> meta_path, log |-> log,
     find |-> find, raised |-> raised]

\* The last find_spec call: the name asked for and how the call exited.
FindEvent(fullname, result) == [fullname |-> fullname, result |-> result]

\* import <name>, for a target module.
ImportModule(w, name, delegate, release_info) ==
    IF w.sys_modules[name].loaded
    THEN w    \* found in sys.modules: no finder is asked
    ELSE IF Contains(w.meta_path, FinderEntry)
    THEN
        LET found == Finder_find_spec(w.meta_path, name, delegate)
            ev == FindEvent(name, found.result)
        IN
        IF found.result # "spec"
        THEN \* find_spec raised, or no finder has a spec: the import raises
             World(w.sys_modules, found.meta_path, w.log, ev, TRUE)
        ELSE
            LET ex == Loader_exec_module(name, release_info) IN
            IF ex.raised
            THEN \* the import machinery drops the module again
                 World(w.sys_modules, found.meta_path, ex.log, ev, TRUE)
            ELSE World([w.sys_modules EXCEPT ![name] =
                            [loaded |-> TRUE, wrapped |-> TRUE, sym |-> ex.sym]],
                       found.meta_path, ex.log, ev, FALSE)
    ELSE \* the Finder is not on sys.meta_path: the module loads unpatched
        IF delegate = "found"
        THEN World([w.sys_modules EXCEPT ![name] =
                        [loaded |-> TRUE, wrapped |-> FALSE, sym |-> FreshSymbols(name)]],
                   w.meta_path, w.log, w.find, FALSE)
        ELSE World(w.sys_modules, w.meta_path, w.log, w.find, TRUE)

\* The host re-executes a loaded module through its __spec__.loader
\* (a cog reload): the wrapper's exec_module when the spec is the wrapped one.
ReexecModule(w, name, release_info) ==
    IF w.sys_modules[name].wrapped
    THEN LET ex == Loader_exec_module(name, release_info)
         IN World([w.sys_modules EXCEPT ![name].sym = ex.sym],
                  w.meta_path, ex.log, w.find, ex.raised)
    ELSE World([w.sys_modules EXCEPT ![name].sym = FreshSymbols(name)],
               w.meta_path, w.log, w.find, FALSE)

\* One patch call of update_node on an imported module.
PatchModule(w, name, release_info) ==
    LET p == Dispatch(name, w.sys_modules[name].sym, release_info)
    IN World([w.sys_modules EXCEPT ![name].sym = p.sym],
             w.meta_path, w.log, w.find, p.raised)

(***************************************************************************)
(* update_node after stop_managed_node has returned: the three imports,    *)
(* the three patch calls and start_managed_node, none of which suspends.   *)
(* d gives the outcome of the delegated lookup of each import, start       *)
(* whether start_managed_node raises.                                      *)
(***************************************************************************)
UpdateNodeSteps ==
    << [op |-> "import", module |-> _AUDIO_MANAGER_MOD_NAME],
       [op |-> "import", module |-> _AUDIO_LL_SERVER_CONFIG_MOD_NAME],
       [op |-> "import", module |-> _AUDIO_VERSION_PINS_MOD_NAME],
       [op |-> "patch", module |-> _AUDIO_MANAGER_MOD_NAME],
       [op |-> "patch", module |-> _AUDIO_LL_SERVER_CONFIG_MOD_NAME],
       [op |-> "patch", module |-> _AUDIO_VERSION_PINS_MOD_NAME],
       [op |-> "start_managed_node", module |-> "bot"] >>

RECURSIVE RunUpdateNode(_, _, _, _, _)
\* The statements of update_node from the i-th on; the first that raises ends it.
RunUpdateNode(w, i, release_info, d, start_raises) ==
    IF w.raised \/ i > Len(UpdateNodeSteps) THEN w
    ELSE
        LET step == UpdateNodeSteps[i]
            after ==
                IF step.op = "import"
                THEN ImportModule(w, step.module, d[i], release_info)
                ELSE IF step.op = "patch"
                THEN PatchModule(w, step.module, release_info)
                ELSE World(w.sys_modules, w.meta_path, w.log, w.find, start_raises)
        IN RunUpdateNode(after, i + 1, release_info, d, start_raises)

update_node_sync(w, release_info, d, start_raises) ==
    RunUpdateNode(w, 1, release_info, d, start_raises)

(***************************************************************************)
(* The releases the catalog of Spec publishes, the indexes a fetch may     *)
(* return, and the host's version (redbot.__version__).                    *)
(***************************************************************************)
Overrides(name) == DictOf({<<"lavalink", DictOf({<<"server", Leaf(name)>>})>>})

RelStable ==
    ReleaseInfo("stable-1", "4.0.1", "url/stable-1", "yt-1", <<17, 21>>,
                {Clause(">=", 1)}, STABLE, Overrides("stable-1"))
RelPreview ==
    ReleaseInfo("preview-2", "4.1.0", "url/preview-2", "yt-2", <<17, 21>>,
                {}, PREVIEW, Overrides("preview-2"))
\* A release object the parser accepts although its java_versions list is empty.
RelNoJava ==
    ReleaseInfo("stable-0", "4.0.0", "url/stable-0", "yt-0", <<>>,
                {}, STABLE, EmptyDict)
\* A release for a later host version only.
RelFuture ==
    ReleaseInfo("stable-3", "4.2.0", "url/stable-3", "yt-3", <<21>>,
                {Clause(">=", 3)}, STABLE, EmptyDict)

HostVersion == Version(2, FALSE)

FetchedIndexes ==
    { <<>>, <<RelFuture>>, <<RelFuture, RelStable>>, <<RelStable>>,
      <<RelPreview, RelStable>>, <<RelStable, RelPreview>>,
      <<RelNoJava, RelStable>> }


(***************************************************************************)
(* The state of the running process.                                       *)
(***************************************************************************)
VARIABLES
    config_release_info,  \* self.config.release_info: the persisted selection (JSON) or None
    cog,                  \* "new", "loaded" (cog_load done), "initialized", "unloaded", "failed"
    release_info,         \* UpdateManager.release_info
    session,              \* UpdateManager._session: "none", "open", "closed"
    meta_path,            \* sys.meta_path
    sys_modules,          \* the target modules
    tracing,              \* whether the calls of the hook are being recorded
    exec_log,             \* recorded: the calls of the Loader wrapper's last exec_module
    find_log,             \* recorded: the Finder's last find_spec call
    pc,                   \* per update_command call: where it is suspended
    release_stream,       \* per call: the stream argument
    latest_compatible,    \* per call: the local latest_compatible
    old_release_info,     \* per call: the local old_release_info
    fn_in,                \* SpecMerge / SpecResolve: the arguments drawn
    fn_out                \* SpecMerge / SpecResolve: the value returned

procVars == <<cog, release_info, session, meta_path, sys_modules, tracing, exec_log, find_log>>
flowVars == <<pc, release_stream, latest_compatible, old_release_info>>
fnVars == <<fn_in, fn_out>>
vars == <<config_release_info, procVars, flowVars, fnVars>>

\* The update_command calls that may be in flight.
Flows == {"f1", "f2"}
\* Spec runs one command at a time (the host's single flow of control).
SerialFlows == {"f1"}

NoEvent == [call |-> "none"]

ProcessStart ==
    /\ cog = "new"
    /\ release_info = None
    /\ session = "none"
    /\ meta_path = <<PathFinder>>
    /\ sys_modules = [name \in _AUDIO_AFFECTED_MODULES |-> NotLoaded(name)]
    /\ exec_log = <<>>
    /\ find_log = NoEvent
    /\ pc = [f \in Flows |-> "idle"]
    /\ release_stream = [f \in Flows |-> STABLE]
    /\ latest_compatible = [f \in Flows |-> None]
    /\ old_release_info = [f \in Flows |-> None]

Init ==
    /\ config_release_info = None
    /\ tracing = FALSE
    /\ ProcessStart
    /\ fn_in = None
    /\ fn_out = None


(***************************************************************************)
(* The cog's lifecycle (cog.py).                                           *)
(***************************************************************************)
\* cog_load: hydrate the selection from storage and construct the UpdateManager;
\* when from_json_dict raises, the cog fails to load with no UpdateManager made.
cog_load ==
    /\ cog = "new"
    /\ IF config_release_info # None /\ IsRaised(from_json_dict(config_release_info))
       THEN /\ cog' = "failed"
            /\ UNCHANGED <<release_info, session>>
       ELSE /\ release_info' = IF config_release_info = None THEN None
                               ELSE from_json_dict(config_release_info)
            /\ session' = "open"
            /\ cog' = "loaded"
    /\ UNCHANGED <<config_release_info, meta_path, sys_modules, tracing, exec_log,
                   find_log, flowVars, fnVars>>

\* initialize: sys.meta_path.insert(0, self._finder); runs right after cog_load.
initialize ==
    /\ cog = "loaded"
    /\ meta_path' = Insert(meta_path, 0, FinderEntry)
    /\ cog' = "initialized"
    /\ UNCHANGED <<config_release_info, release_info, session, sys_modules, tracing,
                   exec_log, find_log, flowVars, fnVars>>

\* cog_unload: sys.meta_path.remove(self._finder) raises ValueError when the
\* Finder is not in the list, and the close that follows is then not reached.
cog_unload ==
    /\ cog = "initialized"
    /\ cog' = "unloaded"
    /\ IF Contains(meta_path, FinderEntry)
       THEN /\ meta_path' = Pop(meta_path, IndexOf(meta_path, FinderEntry))
            /\ session' = "closed"
       ELSE UNCHANGED <<meta_path, session>>
    /\ UNCHANGED <<config_release_info, release_info, sys_modules, tracing, exec_log,
                   find_log, flowVars, fnVars>>

\* The bot process is restarted: storage is all that survives.
Restart ==
    /\ cog # "new"
    /\ cog' = "new"
    /\ release_info' = None
    /\ session' = "none"
    /\ meta_path' = <<PathFinder>>
    /\ sys_modules' = [name \in _AUDIO_AFFECTED_MODULES |-> NotLoaded(name)]
    /\ exec_log' = <<>>
    /\ find_log' = NoEvent
    /\ pc' = [f \in Flows |-> "idle"]
    /\ release_stream' = [f \in Flows |-> STABLE]
    /\ latest_compatible' = [f \in Flows |-> None]
    /\ old_release_info' = [f \in Flows |-> None]
    /\ UNCHANGED <<config_release_info, tracing, fnVars>>

(***************************************************************************)
(* Module loads, which the host starts at times of its own.                *)
(***************************************************************************)
SetWorld(w) ==
    /\ sys_modules' = w.sys_modules
    /\ meta_path' = w.meta_path
    /\ exec_log' = IF tracing THEN w.log ELSE exec_log
    /\ find_log' = IF tracing THEN w.find ELSE find_log
    /\ UNCHANGED tracing

CurrentWorld == World(sys_modules, meta_path, exec_log, find_log, FALSE)

\* Some code imports a target module that is not in sys.modules yet.
Import(name, delegate) ==
    /\ ~sys_modules[name].loaded
    /\ SetWorld(ImportModule(CurrentWorld, name, delegate, release_info))
    /\ UNCHANGED <<config_release_info, cog, release_info, session, flowVars, fnVars>>

\* Some code imports a module that is no target: the Finder is asked and declines.
ImportOther ==
    /\ Contains(meta_path, FinderEntry)
    /\ LET found == Finder_find_spec(meta_path, OtherModName, "found")
       IN /\ meta_path' = found.meta_path
          /\ find_log' = IF tracing THEN FindEvent(OtherModName, found.result)
                         ELSE find_log
    /\ UNCHANGED <<config_release_info, cog, release_info, session, sys_modules,
                   tracing, exec_log, flowVars, fnVars>>

\* The host re-executes a loaded target module.
Reexec(name) ==
    /\ sys_modules[name].loaded
    /\ SetWorld(ReexecModule(CurrentWorld, name, release_info))
    /\ UNCHANGED <<config_release_info, cog, release_info, session, flowVars, fnVars>>

\* Other code puts a finder of its own at the front of sys.meta_path.
OtherFinderInstalls ==
    /\ Cardinality({i \in DOMAIN meta_path : meta_path[i] = OtherFinder}) < MaxOtherFinders
    /\ meta_path' = Insert(meta_path, 0, OtherFinder)
    /\ UNCHANGED <<config_release_info, cog, release_info, session, sys_modules,
                   tracing, exec_log, find_log, flowVars, fnVars>>


(***************************************************************************)
(* The operator commands (cog.py).  update_command suspends at the fetch,  *)
(* at the confirmation view, inside update_node (stop_managed_node) and at *)
(* the write of the selection; each action runs from one suspension to the *)
(* next.                                                                   *)
(***************************************************************************)
Selection(release, config) == [release_info |-> release, config |-> config]

\* A plausible slip: the new selection is persisted before the restart.
TentativeAssign_persist_first(latest, config) ==
    Selection(latest, as_json_dict(latest))

\* self._update_manager.release_info = latest_compatible (storage untouched).
TentativeAssign(latest, config) == Selection(latest, config)

\* A plausible slip: the handler re-raises without restoring the selection.
ExceptHandler_no_restore(current, old, config) == Selection(current, config)

\* except Exception: self._update_manager.release_info = old_release_info; raise
ExceptHandler(current, old, config) == Selection(old, config)

\* The command returns or raises: its locals are gone.
EndCommand(f) ==
    /\ pc' = [pc EXCEPT ![f] = "idle"]
    /\ release_stream' = [release_stream EXCEPT ![f] = STABLE]
    /\ latest_compatible' = [latest_compatible EXCEPT ![f] = None]
    /\ old_release_info' = [old_release_info EXCEPT ![f] = None]

\* A plausible slip: the reset also clears the selection in memory.
llupdates_reset_clears_selection ==
    /\ cog = "initialized"
    /\ config_release_info' = None
    /\ release_info' = None
    /\ UNCHANGED <<cog, session, meta_path, sys_modules, tracing, exec_log, find_log,
                   flowVars, fnVars>>

\* [p]llupdates reset
llupdates_reset ==
    /\ cog = "initialized"
    /\ config_release_info' = None
    /\ UNCHANGED <<procVars, flowVars, fnVars>>

\* [p]llupdates update / previewupdate: the command starts and awaits the fetch.
update_command(f, stream) ==
    /\ cog = "initialized"
    /\ pc[f] = "idle"
    /\ pc' = [pc EXCEPT ![f] = "fetching"]
    /\ release_stream' = [release_stream EXCEPT ![f] = stream]
    /\ UNCHANGED <<config_release_info, procVars, latest_compatible, old_release_info,
                   fnVars>>

\* fetch_release_index raised (transport or validation failure).
FetchFails(f) ==
    /\ pc[f] = "fetching"
    /\ EndCommand(f)
    /\ UNCHANGED <<config_release_info, procVars, fnVars>>

\* The fetch returned `index`: resolution, the already-latest check and the
\* confirmation prompt (lines 94-133).  The command ends here when no release
\* is found, none is compatible, or the compatible one is selected already.
Resolve(f, index) ==
    /\ pc[f] = "fetching"
    /\ LET latest == get_latest_release(index, release_stream[f], None)
           compatible == get_latest_release(index, release_stream[f], HostVersion)
       IN IF ~latest.found \/ ~compatible.found
          THEN EndCommand(f)
          ELSE IF release_info = compatible.release
          THEN EndCommand(f)
          ELSE /\ pc' = [pc EXCEPT ![f] = "confirm"]
               /\ latest_compatible' = [latest_compatible EXCEPT ![f] = compatible.release]
               /\ UNCHANGED <<release_stream, old_release_info>>
    /\ UNCHANGED <<config_release_info, procVars, fnVars>>

\* view.wait() returned without a confirmation.
Decline(f) ==
    /\ pc[f] = "confirm"
    /\ EndCommand(f)
    /\ UNCHANGED <<config_release_info, procVars, fnVars>>

\* The operator confirmed: lines 140-144 up to the first await of update_node.
Confirm(f) ==
    /\ pc[f] = "confirm"
    /\ LET after == TentativeAssign(latest_compatible[f], config_release_info)
       IN /\ old_release_info' = [old_release_info EXCEPT ![f] = release_info]
          /\ release_info' = after.release_info
          /\ config_release_info' = after.config
    /\ pc' = [pc EXCEPT ![f] = "update_node"]
    /\ UNCHANGED <<cog, session, meta_path, sys_modules, tracing, exec_log, find_log,
                   release_stream, latest_compatible, fnVars>>

\* A plausible slip: the handler restores the selection only when it still
\* is the one this call assigned.
StopRaises_restore_if_own(f) ==
    /\ pc[f] = "update_node"
    /\ release_info' = IF release_info = latest_compatible[f]
                       THEN old_release_info[f] ELSE release_info
    /\ EndCommand(f)
    /\ UNCHANGED <<config_release_info, cog, session, meta_path, sys_modules, tracing,
                   exec_log, find_log, fnVars>>

\* stop_managed_node raised: the handler of update_command runs.
StopRaises(f) ==
    /\ pc[f] = "update_node"
    /\ LET after == ExceptHandler(release_info, old_release_info[f], config_release_info)
       IN /\ release_info' = after.release_info
          /\ config_release_info' = after.config
    /\ EndCommand(f)
    /\ UNCHANGED <<cog, session, meta_path, sys_modules, tracing, exec_log, find_log,
                   fnVars>>

\* stop_managed_node returned: the rest of update_node runs, and either
\* returns or raises into the handler of update_command.
UpdateNode(f, d, start_raises) ==
    /\ pc[f] = "update_node"
    /\ LET w == update_node_sync(CurrentWorld, release_info, d, start_raises)
           after == ExceptHandler(release_info, old_release_info[f], config_release_info)
       IN /\ SetWorld(w)
          /\ IF w.raised
             THEN /\ release_info' = after.release_info
                  /\ config_release_info' = after.config
                  /\ EndCommand(f)
             ELSE /\ pc' = [pc EXCEPT ![f] = "persist"]
                  /\ UNCHANGED <<release_info, config_release_info, release_stream,
                                 latest_compatible, old_release_info>>
    /\ UNCHANGED <<cog, session, fnVars>>

\* await self.config.release_info.set(latest_compatible.as_json_dict())
Persist(f) ==
    /\ pc[f] = "persist"
    /\ config_release_info' = as_json_dict(latest_compatible[f])
    /\ EndCommand(f)
    /\ UNCHANGED <<procVars, fnVars>>

Command(f) ==
    \/ \E stream \in ReleaseStream : update_command(f, stream)
    \/ FetchFails(f)
    \/ \E index \in FetchedIndexes : Resolve(f, index)
    \/ Decline(f)
    \/ Confirm(f)
    \/ StopRaises(f)
    \/ \E d \in [1..3 -> DelegateOutcomes], start_raises \in BOOLEAN :
           UpdateNode(f, d, start_raises)
    \/ Persist(f)

Next ==
    \/ cog_load
    \/ initialize
    \/ cog_unload
    \/ Restart
    \/ \E name \in _AUDIO_AFFECTED_MODULES, delegate \in DelegateOutcomes :
           Import(name, delegate)
    \/ \E name \in _AUDIO_AFFECTED_MODULES : Reexec(name)
    \/ llupdates_reset
    \/ \E f \in SerialFlows : Command(f)

Spec == Init /\ [][Next]_vars


(***************************************************************************)
(* SpecHook: the hook alone, with its calls recorded.  The selection is    *)
(* whatever an earlier run persisted; modules are loaded and re-executed   *)
(* by the host, other code adds finders of its own.                        *)
(***************************************************************************)
InitHook ==
    /\ config_release_info \in {None, as_json_dict(RelStable), as_json_dict(RelPreview)}
    /\ tracing = TRUE
    /\ ProcessStart
    /\ fn_in = None
    /\ fn_out = None

NextHook ==
    \/ cog_load
    \/ initialize
    \/ cog_unload
    \/ Restart
    \/ \E name \in _AUDIO_AFFECTED_MODULES, delegate \in DelegateOutcomes :
           Import(name, delegate)
    \/ ImportOther
    \/ \E name \in _AUDIO_AFFECTED_MODULES : Reexec(name)
    \/ OtherFinderInstalls

SpecHook == InitHook /\ [][NextHook]_vars


(***************************************************************************)
(* Properties.                                                             *)
(***************************************************************************)
Symbols(name) == sys_modules[name].sym

\* The step of call f in which update_node raised into the handler of
\* update_command (a restart of the process is no such step).
UpdateNodeRaised(f) ==
    /\ pc[f] = "update_node"
    /\ pc'[f] = "idle"
    /\ cog' = cog

\* C1: when update_node raises after the tentative assignment, the selection
\* in memory at the moment the exception leaves update_command is the value
\* the command read right before it assigned the new release.
C1_RollbackOnRaise ==
    [][\A f \in Flows :
          /\ (pc[f] = "confirm" /\ pc'[f] = "update_node")
                => /\ old_release_info'[f] = release_info
                   /\ release_info' = latest_compatible[f]
          /\ UpdateNodeRaised(f) => release_info' = old_release_info[f]]_vars

\* C1 witness: an update to stable-0 has failed inside update_node (its URL is
\* patched in) and the selection is back at stable-1, which was selected before.
C1_Witness ==
    /\ pc["f1"] = "idle"
    /\ release_info = RelStable
    /\ sys_modules[_AUDIO_MANAGER_MOD_NAME].loaded
    /\ Symbols(_AUDIO_MANAGER_MOD_NAME).LAVALINK_DOWNLOAD_URL = RelNoJava.jar_url

\* update_node has returned for release r: the three modules are loaded and
\* carry r's values.
PatchedFor(mods, r) ==
    /\ \A name \in _AUDIO_AFFECTED_MODULES : mods[name].loaded
    /\ mods[_AUDIO_MANAGER_MOD_NAME].sym.LAVALINK_DOWNLOAD_URL = r.jar_url
    /\ mods[_AUDIO_LL_SERVER_CONFIG_MOD_NAME].sym.generate_server_config >= 1
    /\ mods[_AUDIO_VERSION_PINS_MOD_NAME].sym.YT_PLUGIN_VERSION = r.yt_plugin_version
    /\ mods[_AUDIO_VERSION_PINS_MOD_NAME].sym.SUPPORTED_JAVA_VERSIONS = r.java_versions

\* C2: the persisted selection is written with a new release only by the last
\* step of an update_command call, which is reached only once update_node has
\* returned for that release; no other step of a call writes it (the only
\* other writer is the reset command, which clears it), so a call that ends at
\* the resolution, at the confirmation or in update_node leaves it as it was.
C2_PersistOnlyAfterSuccess ==
    [][/\ config_release_info' # config_release_info
            => \/ config_release_info' = None /\ flowVars' = flowVars
               \/ \E f \in Flows :
                     /\ pc[f] = "persist" /\ pc'[f] = "idle"
                     /\ config_release_info' = as_json_dict(latest_compatible[f])
       /\ \A f \in Flows :
            /\ (pc'[f] = "persist" /\ pc[f] # "persist")
                  => /\ pc[f] = "update_node"
                     /\ PatchedFor(sys_modules', latest_compatible[f])
            /\ (pc[f] \in {"fetching", "confirm", "update_node"} /\ pc'[f] = "idle")
                  => config_release_info' = config_release_info]_vars

\* C2 witness: an update has gone through and its release is the persisted one.
C2_Witness ==
    /\ pc["f1"] = "idle"
    /\ config_release_info = as_json_dict(RelPreview)
    /\ release_info = RelPreview
    /\ PatchedFor(sys_modules, RelPreview)

\* C5 (the claim as stated): when update_node raises, the symbols of the target
\* modules are as they were before; none carries the new release while the
\* selection is rolled back.
C5_NoHalfPatch ==
    [][\A f \in Flows :
          UpdateNodeRaised(f)
             => \A name \in _AUDIO_AFFECTED_MODULES :
                    sys_modules'[name].sym = sys_modules[name].sym]_vars

\* The config every wrapped function in reach gives for a few inputs.
SampleConfigs == {EmptyDict, Overrides("caller"),
                  DictOf({<<"lavalink", Leaf("caller")>>})}

\* C7: with a release selected, update_ll_server_config applied again to a
\* module leaves the function it left the first time: a module's function
\* never carries more than one wrapper, so a call of it runs the original
\* function once and merges the release overrides and the caller input once.
C7_PatchIdempotent ==
    LET module == Symbols(_AUDIO_LL_SERVER_CONFIG_MOD_NAME)
        once == update_ll_server_config(module, release_info).sym
        twice == update_ll_server_config(once, release_info).sym
    IN /\ module.generate_server_config <= 1
       /\ release_info # None =>
            /\ twice = once
            /\ once.generate_server_config = 1
            /\ \A base \in SampleConfigs, config_data \in SampleConfigs :
                   generate_server_config(twice.generate_server_config, base,
                                          release_info, config_data)
                     = _generate_server_config(base, release_info, config_data)

\* C7 witness: update_node has patched (pc "persist") a module that the Loader
\* wrapper had executed and patched while a release was selected.
C7_Witness ==
    /\ pc["f1"] = "persist"
    /\ old_release_info["f1"] # None
    /\ sys_modules[_AUDIO_LL_SERVER_CONFIG_MOD_NAME].wrapped
    /\ Symbols(_AUDIO_LL_SERVER_CONFIG_MOD_NAME).generate_server_config = 1


\* C3 (the claim as stated): when the delegated lookup raises inside find_spec,
\* the Finder is back on sys.meta_path once the call has exited.
C3_FinderBackAfterRaise ==
    [][(find_log' # find_log /\ find_log'.result = "raise")
          => Contains(meta_path', FinderEntry)]_vars

\* What the wrapper's last exec_module did to module `name` under selection r.
ExecutedThenPatched(name, r) ==
    /\ exec_log = <<ExecEvent(name), PatchEvent(name, r)>>
    /\ ~Dispatch(name, FreshSymbols(name), r).raised
         => Symbols(name) = Dispatch(name, FreshSymbols(name), r).sym

\* C4: every exec_module of the Loader wrapper first has the real loader
\* execute the module and then calls one patch function once on that module:
\* update_manager for the manager module, update_ll_server_config for
\* ll_server_config, update_version_pins for version_pins.  The module holds
\* what that one call leaves of the freshly executed symbols.
C4_ExecThenPatchOnce ==
    exec_log # <<>> =>
        /\ Len(exec_log) = 2
        /\ exec_log[1].call = "exec_module"
        /\ exec_log[1].module \in _AUDIO_AFFECTED_MODULES
        /\ exec_log[2].module = exec_log[1].module
        /\ exec_log[2].call =
              (IF exec_log[1].module = _AUDIO_MANAGER_MOD_NAME THEN "update_manager"
               ELSE IF exec_log[1].module = _AUDIO_LL_SERVER_CONFIG_MOD_NAME
               THEN "update_ll_server_config" ELSE "update_version_pins")
        /\ exec_log[2].release_info = release_info
        /\ ExecutedThenPatched(exec_log[1].module, release_info)

\* C4 witness: version_pins was executed through the wrapper with a release
\* selected and carries that release's pins.
C4_Witness ==
    /\ release_info = RelStable
    /\ exec_log = <<ExecEvent(_AUDIO_VERSION_PINS_MOD_NAME),
                    PatchEvent(_AUDIO_VERSION_PINS_MOD_NAME, RelStable)>>
    /\ Symbols(_AUDIO_VERSION_PINS_MOD_NAME).LATEST_SUPPORTED_JAVA_VERSION = 21
    /\ Symbols(_AUDIO_VERSION_PINS_MOD_NAME).OLDER_SUPPORTED_JAVA_VERSIONS = <<17>>

\* C6: with no release selected, each of the three patch functions returns
\* and leaves the module's symbols as they are; a module the wrapper executed
\* with nothing selected holds the symbols of its own body.
C6_NoOpWhenUnselected ==
    /\ update_manager(Symbols(_AUDIO_MANAGER_MOD_NAME), None)
          = Returned(Symbols(_AUDIO_MANAGER_MOD_NAME))
    /\ update_ll_server_config(Symbols(_AUDIO_LL_SERVER_CONFIG_MOD_NAME), None)
          = Returned(Symbols(_AUDIO_LL_SERVER_CONFIG_MOD_NAME))
    /\ update_version_pins(Symbols(_AUDIO_VERSION_PINS_MOD_NAME), None)
          = Returned(Symbols(_AUDIO_VERSION_PINS_MOD_NAME))
    /\ (exec_log # <<>> /\ exec_log[2].release_info = None)
          => Symbols(exec_log[1].module) = FreshSymbols(exec_log[1].module)

\* C6 witness: the wrapper executed the manager module and called
\* update_manager on it with nothing selected.
C6_Witness ==
    /\ release_info = None
    /\ exec_log = <<ExecEvent(_AUDIO_MANAGER_MOD_NAME),
                    PatchEvent(_AUDIO_MANAGER_MOD_NAME, None)>>
    /\ sys_modules[_AUDIO_MANAGER_MOD_NAME].wrapped
    /\ Symbols(_AUDIO_MANAGER_MOD_NAME) = FreshSymbols(_AUDIO_MANAGER_MOD_NAME)


(***************************************************************************)
(* SpecMerge: the patched config generation on every triple of a base      *)
(* config, a release's overrides and a caller input of at most             *)
(* MaxTreeNodes keys each.  The leaves of a tree name its layer.           *)
(***************************************************************************)
TopKeys == {"a", "b"}
SubKeys == {"c", "d"}

\* The dicts over some of `keys` with values from `values`.
DictsOver(keys, values) ==
    { Dict(f) : f \in UNION { [ks -> values] : ks \in SUBSET keys } }

RECURSIVE TreeNodes(_)
RECURSIVE SumNodes(_, _)
SumNodes(tree, keys) ==
    IF keys = {} THEN 0
    ELSE LET k == CHOOSE k \in keys : TRUE
         IN 1 + TreeNodes(tree.d[k]) + SumNodes(tree, keys \ {k})
\* The number of keys a tree holds, at every level.
TreeNodes(tree) == IF IsDict(tree) THEN SumNodes(tree, DOMAIN tree.d) ELSE 0

TreesOf(layer) ==
    { t \in DictsOver(TopKeys,
                      {Leaf(layer)} \cup DictsOver(SubKeys, {Leaf(layer), EmptyDict})) :
        TreeNodes(t) <= MaxTreeNodes }

MergeRelease(overrides) ==
    ReleaseInfo("merge", "4.0.1", "url/merge", "yt-1", <<17>>, {}, STABLE, overrides)

MergeInputs ==
    [base : TreesOf("base"),
     release_info : {None} \cup { MergeRelease(t) : t \in TreesOf("release") },
     config_data : TreesOf("caller")]

InitMerge ==
    /\ config_release_info = None
    /\ tracing = FALSE
    /\ ProcessStart
    /\ fn_in \in MergeInputs
    /\ fn_out = None

\* The wrapped generate_server_config is called.
CallGenerateServerConfig ==
    /\ fn_out = None
    /\ fn_out' = _generate_server_config(fn_in.base, fn_in.release_info, fn_in.config_data)
    /\ UNCHANGED <<config_release_info, procVars, flowVars, fn_in>>

NextMerge == CallGenerateServerConfig

SpecMerge == InitMerge /\ [][NextMerge]_vars

\* Paths into a tree: one key, or a top key and a sub key.
Paths == { <<k>> : k \in TopKeys \cup SubKeys }
           \cup { <<k1, k2>> : k1 \in TopKeys \cup SubKeys, k2 \in TopKeys \cup SubKeys }

RECURSIVE Has(_, _)
\* The tree holds a value at the path.
Has(tree, path) ==
    IF path = <<>> THEN TRUE
    ELSE /\ IsDict(tree)
         /\ Head(path) \in DOMAIN tree.d
         /\ Has(tree.d[Head(path)], Tail(path))

RECURSIVE ValueAt(_, _)
ValueAt(tree, path) ==
    IF path = <<>> THEN tree ELSE ValueAt(tree.d[Head(path)], Tail(path))

\* The tree holds a leaf at the path.
LeafAt(tree, path) == Has(tree, path) /\ ~IsDict(ValueAt(tree, path))

\* The layer overrides the path: it holds a value at the path itself, or a
\* leaf at a path above it.
OverridesPath(layer, path) ==
    \/ Has(layer, path)
    \/ \E n \in 1..(Len(path) - 1) : LeafAt(layer, SubSeq(path, 1, n))

\* C8: with a release selected, the config the patched function returns
\* obeys the three-layer precedence: every leaf of the caller input is in the
\* result with the caller's value; every leaf of the release overrides that
\* the caller input does not override is in it with the release's value; every
\* leaf of the base config that neither overrides keeps its value.
C8_MergePrecedence ==
    (fn_out # None /\ fn_in.release_info # None) =>
        LET base == fn_in.base
            release == fn_in.release_info.application_yml_overrides
            caller == fn_in.config_data
        IN \A path \in Paths :
              /\ LeafAt(caller, path)
                    => LeafAt(fn_out, path) /\ ValueAt(fn_out, path) = Leaf("caller")
              /\ (LeafAt(release, path) /\ ~OverridesPath(caller, path))
                    => LeafAt(fn_out, path) /\ ValueAt(fn_out, path) = Leaf("release")
              /\ (LeafAt(base, path) /\ ~OverridesPath(release, path)
                                     /\ ~OverridesPath(caller, path))
                    => LeafAt(fn_out, path) /\ ValueAt(fn_out, path) = Leaf("base")

\* C8 witness: the example base {a, b: {c}}, release {b: {c, d}}, caller
\* {b: {c}} has been merged: b.c is the caller's, b.d the release's, a the base's.
C8_Witness ==
    /\ fn_in.base = DictOf({<<"a", Leaf("base")>>,
                            <<"b", DictOf({<<"c", Leaf("base")>>})>>})
    /\ fn_in.release_info # None
    /\ fn_in.release_info.application_yml_overrides =
          DictOf({<<"b", DictOf({<<"c", Leaf("release")>>, <<"d", Leaf("release")>>})>>})
    /\ fn_in.config_data = DictOf({<<"b", DictOf({<<"c", Leaf("caller")>>})>>})
    /\ fn_out = DictOf({<<"a", Leaf("base")>>,
                        <<"b", DictOf({<<"c", Leaf("caller")>>,
                                       <<"d", Leaf("release")>>})>>})


(***************************************************************************)
(* SpecResolve: get_latest_release on every index of at most MaxIndexLen   *)
(* releases, every stream and every optional host version up to            *)
(* MaxVersion (final or pre-release).                                      *)
(***************************************************************************)
ResolveConstraints ==
    {{}, {Clause("<=", 1)}} \cup { {Clause(">=", n)} : n \in 1..MaxVersion }

ResolveReleases ==
    { ReleaseInfo("r", "4.0.1", "url/r", "yt-1", <<17>>, c, s, EmptyDict) :
        c \in ResolveConstraints, s \in ReleaseStream }

ResolveIndexes == UNION { [1..n -> ResolveReleases] : n \in 0..MaxIndexLen }

HostVersions == { Version(n, pre) : n \in 1..MaxVersion, pre \in BOOLEAN }

ResolveInputs ==
    [releases : ResolveIndexes,
     release_stream : ReleaseStream,
     red_version : {None} \cup HostVersions]

InitResolve ==
    /\ config_release_info = None
    /\ tracing = FALSE
    /\ ProcessStart
    /\ fn_in \in ResolveInputs
    /\ fn_out = None

\* index.get_latest_release(release_stream, red_version=red_version) is called.
CallGetLatestRelease ==
    /\ fn_out = None
    /\ fn_out' = get_latest_release(fn_in.releases, fn_in.release_stream, fn_in.red_version)
    /\ UNCHANGED <<config_release_info, procVars, flowVars, fn_in>>

NextResolve == CallGetLatestRelease

SpecResolve == InitResolve /\ [][NextResolve]_vars

\* The release at i passes the stream filter of the call.
StreamPasses(i) ==
    \/ fn_in.releases[i].release_stream = fn_in.release_stream
    \/ fn_in.release_stream = PREVIEW /\ fn_in.releases[i].release_stream = STABLE

\* The release at i passes the host-version filter of the call.
VersionPasses(i) ==
    \/ fn_in.red_version = None
    \/ \A c \in fn_in.releases[i].red_version :
          \/ c.op = ">=" /\ VersionKey(fn_in.red_version) >= 2 * c.n
          \/ c.op = "<=" /\ VersionKey(fn_in.red_version) <= 2 * c.n

Passes(i) == StreamPasses(i) /\ VersionPasses(i)

\* C9: get_latest_release returns the first release in index order that
\* passes the stream filter (the stream asked for, and STABLE too when PREVIEW
\* is asked for; a STABLE query never returns a PREVIEW release) and the
\* host-version filter (when a host version is given); it raises ValueError
\* exactly when no release passes both, so on every empty index.
C9_FirstEligible ==
    fn_out # None =>
        /\ fn_out.found =>
              /\ fn_out.at \in 1..Len(fn_in.releases)
              /\ fn_out.release = fn_in.releases[fn_out.at]
              /\ Passes(fn_out.at)
              /\ \A j \in 1..(fn_out.at - 1) : ~Passes(j)
              /\ fn_in.release_stream = STABLE => fn_out.release.release_stream = STABLE
        /\ ~fn_out.found <=> \A i \in 1..Len(fn_in.releases) : ~Passes(i)
        /\ fn_in.releases = <<>> => ~fn_out.found

\* C9 witness: with a host version given, a call returned a release that is
\* not the first of the index, having skipped one for its stream and one for
\* its constraint.
C9_Witness ==
    /\ fn_out # None
    /\ fn_out.found
    /\ fn_in.red_version # None
    /\ fn_out.at = 3
    /\ \E i, j \in 1..2 : ~StreamPasses(i) /\ StreamPasses(j) /\ ~VersionPasses(j)

\* C10 as stated: get_latest_release(PREVIEW) returns a STABLE release only
\* if no PREVIEW release of the index is eligible.
C10_StableOnlyIfNoPreview ==
    (/\ fn_out # None
     /\ fn_in.release_stream = PREVIEW
     /\ fn_out.found
     /\ fn_out.release.release_stream = STABLE)
        => ~\E i \in 1..Len(fn_in.releases) :
                fn_in.releases[i].release_stream = PREVIEW /\ VersionPasses(i)

\* C10 amended: get_latest_release(PREVIEW) returns a STABLE release only if
\* no eligible PREVIEW release is listed before it; and for an index of one
\* STABLE release followed by one PREVIEW release it returns the STABLE one
\* whenever the STABLE one is eligible, whether or not the PREVIEW one is.
C10_StableOnlyIfNoEarlierPreview ==
    (fn_out # None /\ fn_in.release_stream = PREVIEW) =>
        /\ (fn_out.found /\ fn_out.release.release_stream = STABLE)
              => ~\E i \in 1..(fn_out.at - 1) :
                      fn_in.releases[i].release_stream = PREVIEW /\ VersionPasses(i)
        /\ (/\ Len(fn_in.releases) = 2
            /\ fn_in.releases[1].release_stream = STABLE
            /\ fn_in.releases[2].release_stream = PREVIEW
            /\ VersionPasses(1))
              => fn_out.found /\ fn_out.at = 1

\* C10 witness: a PREVIEW query on an index of a STABLE release followed by a
\* PREVIEW release, both eligible for the given host version, returned the
\* STABLE release.
C10_Witness ==
    /\ fn_out # None
    /\ fn_in.release_stream = PREVIEW
    /\ fn_in.red_version # None
    /\ Len(fn_in.releases) = 2
    /\ fn_in.releases[1].release_stream = STABLE
    /\ fn_in.releases[2].release_stream = PREVIEW
    /\ VersionPasses(1) /\ VersionPasses(2)
    /\ fn_out.found
    /\ fn_out.release.release_stream = STABLE


(***************************************************************************)
(* SpecParse: from_json_dict on the objects of a release index or of the   *)
(* storage: well-formed ones, and ones with one key missing or holding one *)
(* value that is not what the key asks for.  A parsed release is then      *)
(* selected and update_version_pins is called with it.                     *)
(***************************************************************************)
JavaVersionTuples == UNION { [1..n -> {11, 17}] : n \in 0..MaxJavaVersions }

ParseReleases ==
    { ReleaseInfo("r", "4.0.1", "url/r", "yt-1", j, c, s, o) :
        j \in JavaVersionTuples,
        c \in {{}, {Clause(">=", 1)}, {Clause(">=", 1), Clause("<=", 2)}},
        s \in ReleaseStream,
        o \in {EmptyDict, Overrides("r")} }

RequiredKeys == {"release_name", "jar_version", "jar_url", "yt_plugin_version",
                 "java_versions", "red_version", "release_stream"}
AllKeys == RequiredKeys \cup {"application_yml_overrides"}

\* The Python type from_json_dict asks for under a key.
DeclaredType(key) ==
    IF key = "java_versions" THEN "list"
    ELSE IF key = "application_yml_overrides" THEN "dict"
    ELSE "str"

Without(data, key) == [k \in DOMAIN data \ {key} |-> data[k]]
With(data, key, value) == [k \in DOMAIN data \cup {key} |-> IF k = key THEN value ELSE data[k]]

\* Values that are not what the key asks for.
ItemLists == UNION { [1..n -> {JInt(17), JStr("17")}] : n \in 1..MaxJavaVersions }
BadValues(key) ==
    { v \in {JNull, JInt(1), JStr("text"), JList(<<>>), EmptyDict} : v.t # DeclaredType(key) }
      \cup (IF key = "release_stream" THEN {JStr("nightly")} ELSE {})
      \cup (IF key = "red_version"
            THEN {JStr(<<Clause("not a specifier", 0)>>),
                  JStr(<<Clause(">=", 1), Clause("not a specifier", 0)>>)}
            ELSE {})
      \cup (IF key = "java_versions"
            THEN { JList(l) : l \in {l \in ItemLists : \E i \in DOMAIN l : l[i].t # "int"} }
            ELSE {})

ParseInputs ==
    LET good == { as_json_dict(x) : x \in ParseReleases }
    IN good \cup { Without(d, k) : d \in good, k \in AllKeys }
            \cup UNION { { With(d, k, v) : v \in BadValues(k) } : d \in good, k \in AllKeys }

InitParse ==
    /\ config_release_info = None
    /\ tracing = FALSE
    /\ ProcessStart
    /\ fn_in \in ParseInputs
    /\ fn_out = None

\* ReleaseInfo.from_json_dict(data) is called.
CallFromJsonDict ==
    /\ fn_out = None
    /\ fn_out' = from_json_dict(fn_in)
    /\ UNCHANGED <<config_release_info, procVars, flowVars, fn_in>>

\* The parsed release becomes the selection and update_version_pins is called
\* on the version_pins module.
SelectAndPatchVersionPins ==
    /\ fn_out # None
    /\ ~IsRaised(fn_out)
    /\ release_info = None
    /\ release_info' = fn_out
    /\ sys_modules' =
          [sys_modules EXCEPT ![_AUDIO_VERSION_PINS_MOD_NAME] =
              [loaded |-> TRUE, wrapped |-> FALSE,
               sym |-> update_version_pins(FreshSymbols(_AUDIO_VERSION_PINS_MOD_NAME),
                                           fn_out).sym]]
    /\ UNCHANGED <<config_release_info, cog, session, meta_path, tracing, exec_log,
                   find_log, flowVars, fnVars>>

NextParse == CallFromJsonDict \/ SelectAndPatchVersionPins

SpecParse == InitParse /\ [][NextParse]_vars

\* What is wrong with the object under a key, if anything.
KeyMissing(key) == key \notin DOMAIN fn_in
WrongType(key) == ~KeyMissing(key) /\ fn_in[key].t # DeclaredType(key)
UnknownStream ==
    /\ ~KeyMissing("release_stream") /\ ~WrongType("release_stream")
    /\ fn_in.release_stream.str \notin {"stable", "preview"}
InvalidRedVersion ==
    /\ ~KeyMissing("red_version") /\ ~WrongType("red_version")
    /\ \E i \in DOMAIN fn_in.red_version.str :
          fn_in.red_version.str[i].op \notin {">=", "<="}
BadItem ==
    /\ ~KeyMissing("java_versions") /\ ~WrongType("java_versions")
    /\ \E i \in DOMAIN fn_in.java_versions.list : fn_in.java_versions.list[i].t # "int"
Faulty(key) ==
    \/ KeyMissing(key)
    \/ WrongType(key)
    \/ key = "release_stream" /\ UnknownStream
    \/ key = "red_version" /\ InvalidRedVersion
    \/ key = "java_versions" /\ BadItem

\* C11 (the claim as stated): from_json_dict on an object that lacks a
\* required key, or holds a value of another type than declared under it, or
\* an unknown release_stream, or an invalid red_version, raises an error that
\* names that key, and returns no ReleaseInfo.
C11_ErrorNamesKey ==
    fn_out # None =>
        \A key \in RequiredKeys :
            (KeyMissing(key) \/ WrongType(key)
               \/ (key = "release_stream" /\ UnknownStream)
               \/ (key = "red_version" /\ InvalidRedVersion))
                => IsRaised(fn_out) /\ fn_out.key = key

\* C12 (the claim as stated): an object with every required key valid and
\* no application_yml_overrides key parses to a ReleaseInfo whose
\* application_yml_overrides is the empty tree.
C12_OverridesDefaultEmpty ==
    (/\ fn_out # None
     /\ \A key \in RequiredKeys : ~Faulty(key)
     /\ KeyMissing("application_yml_overrides"))
        => ~IsRaised(fn_out) /\ fn_out.application_yml_overrides = EmptyDict

\* C13 (the claim as stated): a java_versions list with an item that is no
\* int makes from_json_dict raise; every item of an accepted list is an int.
C13_ListItemsChecked ==
    fn_out # None =>
        /\ BadItem => IsRaised(fn_out)
        /\ ~IsRaised(fn_out)
              => \A i \in DOMAIN fn_in.java_versions.list :
                     fn_in.java_versions.list[i].t = "int"

\* C19 (the claim as stated): for a selected release that from_json_dict
\* accepted, update_version_pins returns, and the module then holds the full
\* java_versions tuple, its last element and all but its last.
C19_VersionPinsComplete ==
    release_info # None =>
        LET module == Symbols(_AUDIO_VERSION_PINS_MOD_NAME)
            java_versions == release_info.java_versions
        IN /\ ~update_version_pins(FreshSymbols(_AUDIO_VERSION_PINS_MOD_NAME),
                                   release_info).raised
           /\ module.SUPPORTED_JAVA_VERSIONS = java_versions
           /\ module.LATEST_SUPPORTED_JAVA_VERSION = java_versions[Len(java_versions)]
           /\ module.OLDER_SUPPORTED_JAVA_VERSIONS
                 = SubSeq(java_versions, 1, Len(java_versions) - 1)


(***************************************************************************)
(* SpecRoundTrip: a release x is selected and persisted by an update, the  *)
(* process restarts and cog_load hydrates the selection from storage.      *)
(***************************************************************************)
InitRoundTrip ==
    /\ config_release_info = None
    /\ tracing = FALSE
    /\ ProcessStart
    /\ fn_in \in ParseReleases
    /\ fn_out = None

\* An update to x goes through: the selection is assigned and then written
\* to storage as x.as_json_dict().
UpdateSucceeds ==
    /\ cog = "initialized"
    /\ config_release_info = None
    /\ release_info' = TentativeAssign(fn_in, config_release_info).release_info
    /\ config_release_info' = as_json_dict(fn_in)
    /\ UNCHANGED <<cog, session, meta_path, sys_modules, tracing, exec_log, find_log,
                   flowVars, fnVars>>

NextRoundTrip == cog_load \/ initialize \/ UpdateSucceeds \/ cog_unload \/ Restart

SpecRoundTrip == InitRoundTrip /\ [][NextRoundTrip]_vars

\* C14: from_json_dict(x.as_json_dict()) equals x on every field, so the
\* release cog_load hydrates from the JSON a successful update wrote is the
\* release that update selected (and the hydration never fails).
C14_RoundTrip ==
    /\ from_json_dict(as_json_dict(fn_in)) = fn_in
    /\ \A field \in DOMAIN fn_in :
          from_json_dict(as_json_dict(fn_in))[field] = fn_in[field]
    /\ cog # "failed"
    /\ (config_release_info # None /\ cog \in {"loaded", "initialized"})
          => release_info = fn_in

\* C14 witness: after a restart, cog_load has hydrated a release with two
\* java versions, a two-clause red_version and overrides from the storage the
\* update wrote.
C14_Witness ==
    /\ cog = "loaded"
    /\ config_release_info = as_json_dict(fn_in)
    /\ release_info = fn_in
    /\ Len(fn_in.java_versions) = 2
    /\ Cardinality(fn_in.red_version) = 2
    /\ fn_in.application_yml_overrides # EmptyDict


\* C15 (the claim as stated): every cog_unload closes the session, which was
\* open until then; a closed session is not closed again or reopened; and a
\* fetch_release_index request is only issued on the open session.
C15_SessionClosedOnce ==
    [][/\ (cog = "initialized" /\ cog' = "unloaded")
            => (session = "open" /\ session' = "closed")
       /\ (session = "closed" /\ session' # "closed") => cog' = "new"
       /\ \A f \in Flows :
            (pc[f] = "idle" /\ pc'[f] = "fetching") => session = "open"]_vars


\* A find_spec call for a target module has just returned (not raised).
TargetLookupReturned ==
    /\ find_log' # find_log
    /\ find_log' # NoEvent
    /\ find_log'.fullname \in _AUDIO_AFFECTED_MODULES
    /\ find_log'.result # "raise"

\* C16 (the claim as stated): after initialize, and after every reinsertion
\* that follows the lookup of a target module, the Finder is the first entry of
\* sys.meta_path, ahead of the finders other code has added since.
C16_FinderAtFront ==
    [][/\ (cog = "loaded" /\ cog' = "initialized") => Head(meta_path') = FinderEntry
       /\ TargetLookupReturned => Head(meta_path') = FinderEntry]_vars


\* C17: the selection in memory changes only in the tentative assignment and
\* the rollback of update_command and in cog_load's hydration (and with the
\* process, at a restart); the reset command, which clears the persisted
\* selection, leaves it as it is.
C17_SelectionFrame ==
    [][/\ release_info' # release_info
            => \/ cog = "new" /\ cog' = "loaded"
               \/ cog' = "new"
               \/ \E f \in Flows : /\ pc[f] = "confirm" /\ pc'[f] = "update_node"
                                   /\ release_info' = latest_compatible[f]
               \/ \E f \in Flows : /\ pc[f] = "update_node" /\ pc'[f] = "idle"
                                   /\ release_info' = old_release_info[f]
       /\ (config_release_info # None /\ config_release_info' = None)
            => release_info' = release_info]_vars

\* C17 witness: after a reset nothing is persisted and the selection in
\* memory is still the release of the last update.
C17_Witness ==
    /\ cog = "initialized"
    /\ config_release_info = None
    /\ release_info = RelPreview
    /\ pc["f1"] = "idle"
    /\ PatchedFor(sys_modules, RelPreview)

\* C18: a find_spec call that returns leaves sys.meta_path the sequence it
\* was.  For a name that is no target it returns None.  For a target name the
\* delegated lookup runs on sys.meta_path without the Finder (so the lookup
\* never comes back to this find_spec), the Finder is then put back at the
\* index it had, and the call returns None when the lookup found no spec and
\* the wrapped spec otherwise.
C18_SearchOrderKept ==
    /\ [][(find_log' # find_log /\ find_log' # NoEvent /\ find_log'.result # "raise")
             => meta_path' = meta_path]_vars
    /\ [](Contains(meta_path, FinderEntry) =>
            /\ \A delegate \in DelegateOutcomes :
                  LET call == Finder_find_spec(meta_path, OtherModName, delegate)
                  IN call.result = "None" /\ call.meta_path = meta_path
            /\ \A name \in _AUDIO_AFFECTED_MODULES, delegate \in {"found", "none"} :
                  LET call == Finder_find_spec(meta_path, name, delegate)
                  IN /\ ~Contains(call.during, FinderEntry)
                     /\ Len(call.during) = Len(meta_path) - 1
                     /\ call.meta_path = meta_path
                     /\ \A i \in DOMAIN meta_path :
                           meta_path[i] = FinderEntry => call.meta_path[i] = FinderEntry
                     /\ call.result = (IF delegate = "none" THEN "None" ELSE "spec"))

\* C18 witness: with another finder in front of the Finder, a find_spec call
\* for a target module has returned the wrapped spec.
C18_Witness ==
    /\ meta_path = <<OtherFinder, FinderEntry, PathFinder>>
    /\ find_log = FindEvent(_AUDIO_VERSION_PINS_MOD_NAME, "spec")
    /\ sys_modules[_AUDIO_VERSION_PINS_MOD_NAME].wrapped


(***************************************************************************)
(* SpecWrapper: the cog's lifecycle, loads of the target modules, update   *)
(* commands, and calls of the ll_server_config module's                    *)
(* generate_server_config once it is wrapped.  The calls of the Loader     *)
(* wrapper are recorded, so exec_log tells which release was selected when *)
(* the wrapper last executed a module.                                     *)
(***************************************************************************)
InitWrapper ==
    /\ config_release_info \in {None, as_json_dict(RelStable)}
    /\ tracing = TRUE
    /\ ProcessStart
    /\ fn_in = None
    /\ fn_out = None

\* A call's arguments: what the module's own function returns, and config_data.
WrapperCalls == {[base |-> DictOf({<<"lavalink", Leaf("base")>>}), config_data |-> EmptyDict]}

\* A plausible slip: the wrapper keeps the release selected when the Loader
\* wrapper executed the module, not the UpdateManager.
CallWrapped_release_at_install(call) ==
    /\ sys_modules[_AUDIO_LL_SERVER_CONFIG_MOD_NAME].loaded
    /\ Symbols(_AUDIO_LL_SERVER_CONFIG_MOD_NAME).generate_server_config >= 1
    /\ fn_in' = call
    /\ fn_out' = generate_server_config(
                     Symbols(_AUDIO_LL_SERVER_CONFIG_MOD_NAME).generate_server_config,
                     call.base,
                     IF exec_log # <<>> THEN exec_log[2].release_info ELSE release_info,
                     call.config_data)
    /\ UNCHANGED <<config_release_info, procVars, flowVars>>

\* The wrapped generate_server_config(config_data) is called: the wrapper
\* hands the UpdateManager to _generate_server_config, which reads its
\* release_info then.
CallWrapped(call) ==
    /\ sys_modules[_AUDIO_LL_SERVER_CONFIG_MOD_NAME].loaded
    /\ Symbols(_AUDIO_LL_SERVER_CONFIG_MOD_NAME).generate_server_config >= 1
    /\ fn_in' = call
    /\ fn_out' = generate_server_config(
                     Symbols(_AUDIO_LL_SERVER_CONFIG_MOD_NAME).generate_server_config,
                     call.base, release_info, call.config_data)
    /\ UNCHANGED <<config_release_info, procVars, flowVars>>

NextWrapper ==
    \/ cog_load
    \/ initialize
    \/ Restart
    \/ \E delegate \in DelegateOutcomes : Import(_AUDIO_LL_SERVER_CONFIG_MOD_NAME, delegate)
    \/ Reexec(_AUDIO_LL_SERVER_CONFIG_MOD_NAME)
    \/ \E f \in SerialFlows : Command(f)
    \/ \E call \in WrapperCalls : CallWrapped(call)

SpecWrapper == InitWrapper /\ [][NextWrapper]_vars

\* What a call of the wrapped function returns when release r is selected.
MergedFor(r, call) ==
    IF r = None THEN call.base
    ELSE _deep_merge(_deep_merge(call.base, r.application_yml_overrides),
                     call.config_data)

\* C20: every call of the wrapped generate_server_config merges the overrides
\* of the release that is selected in the UpdateManager when the call is made
\* (after an update the new release's, after a rollback the restored one's),
\* whatever was selected when the wrapper was installed.
C20_CallTimeRelease ==
    [][fn_out' # fn_out => fn_out' = MergedFor(release_info, fn_in')]_vars

\* C20 witness: the Loader wrapper installed the wrapper while stable-1 was
\* selected, an update then selected preview-2 without rewrapping, and a call
\* returned the base config with the overrides of preview-2.
C20_Witness ==
    /\ exec_log = <<ExecEvent(_AUDIO_LL_SERVER_CONFIG_MOD_NAME),
                    PatchEvent(_AUDIO_LL_SERVER_CONFIG_MOD_NAME, RelStable)>>
    /\ Symbols(_AUDIO_LL_SERVER_CONFIG_MOD_NAME).generate_server_config = 1
    /\ release_info = RelPreview
    /\ fn_in \in WrapperCalls
    /\ fn_out = _deep_merge(fn_in.base, Overrides("preview-2"))


(***************************************************************************)
(* SpecRace: two update commands in flight at once.  A command runs from   *)
(* one suspension point to the next without interruption; at a suspension  *)
(* point the other command may run.                                        *)
(***************************************************************************)
\* One update_command call of SpecRace.  A fetch returns one of three indexes
\* (empty, stable-1 only, or preview-2 ahead of stable-1: a stable command
\* resolves the last to stable-1, a preview command to preview-2), and the
\* three delegated lookups of update_node are all found or all raising.
CommandRace(f) ==
    \/ \E stream \in ReleaseStream : update_command(f, stream)
    \/ FetchFails(f)
    \/ \E index \in {<<>>, <<RelStable>>, <<RelPreview, RelStable>>} : Resolve(f, index)
    \/ Decline(f)
    \/ Confirm(f)
    \/ StopRaises(f)
    \/ \E d \in {[i \in 1..3 |-> o] : o \in {"found", "raise"}},
          start_raises \in BOOLEAN :
           UpdateNode(f, d, start_raises)
    \/ Persist(f)

NextRace ==
    \/ cog_load
    \/ initialize
    \/ \E f \in Flows : CommandRace(f)

SpecRace == Init /\ [][NextRace]_vars

\* What is persisted is what is selected in memory.
SelectionPersisted ==
    IF config_release_info = None THEN release_info = None
    ELSE release_info = from_json_dict(config_release_info)

\* C21: the selection is not protected against a second update command: the
\* handler of a command whose update_node raised puts back the value that
\* command read before its own assignment, whatever the other command has
\* selected since, and leaves storage alone; a command that succeeds persists
\* its own release, whatever is selected in memory by then.  So when one
\* command has selected and persisted a release while the other was suspended
\* in update_node, and that other command's update_node then raises, both
\* commands are finished and the selection in memory is not the persisted one.
C21_RollbackIgnoresOtherFlow ==
    [][\A f \in Flows :
          /\ UpdateNodeRaised(f)
                => /\ release_info' = old_release_info[f]
                   /\ config_release_info' = config_release_info
          /\ (pc[f] = "persist" /\ pc'[f] = "idle")
                => /\ config_release_info' = as_json_dict(latest_compatible[f])
                   /\ release_info' = release_info
          /\ ( /\ UpdateNodeRaised(f)
               /\ \A g \in Flows \ {f} : pc[g] = "idle"
               /\ config_release_info # None
               /\ SelectionPersisted
               /\ old_release_info[f] # release_info )
                => /\ \A g \in Flows : pc'[g] = "idle"
                   /\ release_info' # from_json_dict(config_release_info')]_vars

\* C21 witness: both commands have finished; one selected and persisted
\* preview-2, the other's rollback then put back the selection it had read
\* before (none), so memory and storage differ.
C21_Witness ==
    /\ cog = "initialized"
    /\ \A f \in Flows : pc[f] = "idle"
    /\ config_release_info = as_json_dict(RelPreview)
    /\ PatchedFor(sys_modules, RelPreview)
    /\ release_info = None
    /\ ~SelectionPersisted

=============================================================================
